---- MODULE Spec2Model ----
(***************************************************************************)
(* A model of lib/utils/rule-loader.js (Solium / Ethlint): the shared      *)
(* rule-definition registry `ruleDefs` and the three exported operations   *)
(* load, resolveUpstream and resolvePluginConfig.                          *)
(*                                                                         *)
(* JavaScript strings are TLA+ strings (TLC evaluates \o, Len and SubSeq   *)
(* on them), JavaScript objects are functions from their own keys to       *)
(* their values, and `undefined` is the value Undefined.  A call is one    *)
(* step: the variables `call`, `before` and `result` record the arguments  *)
(* of the last call, the registry it started from and what it returned or  *)
(* threw.                                                                  *)
(***************************************************************************)
EXTENDS Integers, Sequences, FiniteSets, TLC

VARIABLES ruleDefs, call, before, result

vars == <<ruleDefs, call, before, result>>

-----------------------------------------------------------------------------
(* Bounds of the model. *)

\* Longest listOfRules handed to load.
MaxRules == 2

\* Longest text after the head of an upstream reference handed to resolveUpstream.
MaxIdentLen == 2

-----------------------------------------------------------------------------
(* JavaScript values and string primitives. *)

Undefined == [js |-> "undefined"]

NoKeys == [k \in {} |-> Undefined]

\* obj[key] of a plain object: the own property, else undefined (no key of the
\* model is the name of a property inherited from Object.prototype).
Get(obj, key) == IF key \in DOMAIN obj THEN obj[key] ELSE Undefined

CharAt(s, i) == SubSeq(s, i, i)

\* String.prototype.indexOf for a one-character needle: 0-based, -1 when absent.
IndexOf(s, c) ==
    IF \E i \in 1..Len(s) : CharAt(s, i) = c
    THEN (CHOOSE i \in 1..Len(s) :
              CharAt(s, i) = c /\ \A j \in 1..(i - 1) : CharAt(s, j) # c) - 1
    ELSE -1

\* String.prototype.split for a one-character separator.
RECURSIVE Split(_, _)
Split(s, c) ==
    LET i == IndexOf(s, c)
    IN  IF i = -1 THEN <<s>>
        ELSE <<SubSeq(s, 1, i)>> \o Split(SubSeq(s, i + 2, Len(s)), c)

\* String.prototype.includes.
Includes(s, t) ==
    \E i \in 1..(Len(s) - Len(t) + 1) : SubSeq(s, i, i + Len(t) - 1) = t

-----------------------------------------------------------------------------
(* constants *)

SOLIUM_CORE_RULES_DIRNAME == "rules"
SOLIUM_PLUGIN_PREFIX == "solium-plugin-"
SOLIUM_SHARABLE_CONFIG_PREFIX == "solium-config-"
SOLIUM_CORE_RULES_DIRPATH == "../" \o SOLIUM_CORE_RULES_DIRNAME

-----------------------------------------------------------------------------
(* The registry as module initialisation leaves it. *)

CoreRuleNames ==
    { "arg-overflow", "array-declarations", "blank-lines", "camelcase",
      "comma-whitespace", "conditionals-whitespace", "constructor",
      "deprecated-suicide", "double-quotes", "emit", "error-reason",
      "function-order", "function-whitespace", "imports-on-top", "indentation",
      "lbrace", "linebreak-style", "max-len", "mixedcase", "no-constant",
      "no-empty-blocks", "no-experimental", "no-trailing-whitespace",
      "no-unused-vars", "no-with", "operator-whitespace", "pragma-on-top",
      "quotes", "semicolon-whitespace", "uppercase", "value-in-payable",
      "variable-declarations", "visibility-first", "whitespace" }

\* What require('../rules/<name>') evaluates to: the rule object of that file.
CoreRuleDefinition(name) ==
    [id |-> "../rules/" \o name, meta |-> [docs |-> [type |-> "core"]]]

SeededRuleDefs == [name \in CoreRuleNames |-> CoreRuleDefinition(name)]

-----------------------------------------------------------------------------
(* Outcomes of a call. *)

Returned(v) == [status |-> "return", value |-> v]

Thrown(type, message) == [status |-> "throw", type |-> type, message |-> message]

\* The engine's fault for reading a property of undefined (V8's wording).
PropertyOfUndefined(prop) ==
    Thrown("TypeError",
           "Cannot read properties of undefined (reading '" \o prop \o "')")

-----------------------------------------------------------------------------
(* load *)

\* The plugins argument: a table of loaded plugin objects, or nothing at all.
NoPlugins == [defined |-> FALSE, table |-> NoKeys]
PluginTable(t) == [defined |-> TRUE, table |-> t]

\* Variants of PluginRuleBindingKey: the rule stored under its bare name, or
\* under the name of its plugin.
PluginRuleBindingKeyRuleOnly(name, parts) == parts[2]
PluginRuleBindingKeyPluginOnly(name, parts) == parts[1]

\* The registry key a plugin rule is stored under.
PluginRuleBindingKey(name, parts) == name

\* Variants of LoadCoreRule: the rule file's path bound as a key, or the name
\* bound anew to whatever the skipped require left.
LoadCoreRuleUnderPath(defs, name) ==
    LET ruleFile == SOLIUM_CORE_RULES_DIRPATH \o "/" \o name
    IN  [defs |-> [k \in DOMAIN defs \cup {ruleFile} |->
                      IF k = ruleFile THEN CoreRuleDefinition(name) ELSE defs[k]],
         thrown |-> FALSE, error |-> Undefined]
LoadCoreRuleRebinding(defs, name) ==
    [defs |-> [k \in DOMAIN defs \cup {name} |->
                  IF k = name THEN Undefined ELSE defs[k]],
     thrown |-> FALSE, error |-> Undefined]

\* The core-rule branch: the path is computed, the require is commented out.
LoadCoreRule(defs, name) ==
    LET ruleFile == SOLIUM_CORE_RULES_DIRPATH \o "/" \o name
    IN  [defs |-> defs, thrown |-> FALSE, error |-> Undefined]

\* The plugin branch of the forEach callback.
LoadPluginRule(defs, name, plugins) ==
    LET parts == Split(name, "/")
        pluginName == SOLIUM_PLUGIN_PREFIX \o parts[1]
        ruleName == parts[2]
    IN  IF ~plugins.defined
        THEN [defs |-> defs, thrown |-> TRUE,
              error |-> Thrown("Error",
                               "Unable to load Plugin \"" \o pluginName \o "\".")]
        ELSE IF pluginName \notin DOMAIN plugins.table
        THEN [defs |-> defs, thrown |-> TRUE, error |-> PropertyOfUndefined("rules")]
        ELSE LET plugin == plugins.table[pluginName]
                 key == PluginRuleBindingKey(name, parts)
             IN  [defs |-> [k \in DOMAIN defs \cup {key} |->
                               IF k = key THEN Get(plugin.rules, ruleName)
                               ELSE defs[k]],
                  thrown |-> FALSE, error |-> Undefined]

\* One run of the forEach callback.
LoadRule(defs, name, plugins) ==
    IF IndexOf(name, "/") > -1
    THEN LoadPluginRule(defs, name, plugins)
    ELSE LoadCoreRule(defs, name)

\* Variant of LoadEntries: the entries after a failing one are still resolved
\* before the first failure is reported.
RECURSIVE LoadEntriesPastFailure(_, _, _, _)
LoadEntriesPastFailure(defs, listOfRules, plugins, i) ==
    IF i > Len(listOfRules)
    THEN [defs |-> defs, thrown |-> FALSE, error |-> Undefined]
    ELSE LET step == LoadRule(defs, listOfRules[i], plugins)
             rest == LoadEntriesPastFailure(step.defs, listOfRules, plugins, i + 1)
         IN  IF step.thrown
             THEN [defs |-> rest.defs, thrown |-> TRUE, error |-> step.error]
             ELSE rest

\* listOfRules.forEach from entry i on: a throw leaves the loop.
RECURSIVE LoadEntries(_, _, _, _)
LoadEntries(defs, listOfRules, plugins, i) ==
    IF i > Len(listOfRules)
    THEN [defs |-> defs, thrown |-> FALSE, error |-> Undefined]
    ELSE LET step == LoadRule(defs, listOfRules[i], plugins)
         IN  IF step.thrown THEN step
             ELSE LoadEntries(step.defs, listOfRules, plugins, i + 1)

\* load(listOfRules, plugins) started on the registry defs: the registry it
\* leaves and its result.
LoadOutcome(defs, listOfRules, plugins) ==
    LET run == LoadEntries(defs, listOfRules, plugins, 1)
    IN  [defs |-> run.defs,
         result |-> IF run.thrown THEN run.error ELSE Returned(run.defs)]

-----------------------------------------------------------------------------
(* The arguments the model hands to load. *)

DefB1 == [id |-> "pluginA@1/ruleB", meta |-> [docs |-> [type |-> "error"]]]
DefB2 == [id |-> "pluginA@2/ruleB", meta |-> [docs |-> [type |-> "warning"]]]
DefC  == [id |-> "pluginA@1/ruleC", meta |-> [docs |-> [type |-> "warning"]]]
DefB3 == [id |-> "pluginB/ruleB", meta |-> [docs |-> [type |-> "error"]]]

PluginA1 == [rules |-> ("ruleB" :> DefB1 @@ "ruleC" :> DefC)]
PluginA2 == [rules |-> ("ruleB" :> DefB2)]
PluginB  == [rules |-> ("ruleB" :> DefB3)]

RuleNames ==
    { "quotes", "unknown-core-rule",
      "pluginA/ruleB", "pluginA/ruleC", "pluginB/ruleB", "pluginA/ruleB/x" }

PluginTables ==
    { NoPlugins,
      PluginTable(NoKeys),
      PluginTable("solium-plugin-pluginA" :> PluginA1),
      PluginTable("solium-plugin-pluginA" :> PluginA2),
      PluginTable("solium-plugin-pluginA" :> PluginA1 @@ "solium-plugin-pluginB" :> PluginB) }

RuleLists == UNION { [1..n -> RuleNames] : n \in 0..MaxRules }

-----------------------------------------------------------------------------------------------------------------------------------------------------
(* resolvePluginConfig *)

\* Variant of PluginRuleConfigKey: another separator.
PluginRuleConfigKeyDotted(name, ruleName) == name \o "." \o ruleName

\* The config key of one plugin rule.
PluginRuleConfigKey(name, ruleName) == name \o "/" \o ruleName

\* resolvePluginConfig(name, plugin): a rule without meta faults on `.docs`.
ResolvePluginConfigOutcome(name, plugin) ==
    LET ruleNames == DOMAIN plugin.rules
        keys == { PluginRuleConfigKey(name, r) : r \in ruleNames }
    IN  IF \E r \in ruleNames : "meta" \notin DOMAIN plugin.rules[r]
        THEN PropertyOfUndefined("docs")
        ELSE Returned([k \in keys |->
                 plugin.rules[CHOOSE r \in ruleNames :
                                  PluginRuleConfigKey(name, r) = k].meta.docs.type])

(* The arguments the model hands to resolvePluginConfig. *)

PluginNested == [rules |-> ("dir/ruleB" :> DefB1 @@ "dir" :> DefC)]
PluginMalformed == [rules |-> ("ruleB" :> [id |-> "pluginM/ruleB"])]
PluginEmpty == [rules |-> NoKeys]

PluginShortNames == { "pluginA", "pluginB", "scope/pluginA" }

PluginObjects ==
    { PluginA1, PluginA2, PluginB, PluginNested, PluginMalformed, PluginEmpty }

-----------------------------------------------------------------------------
(* resolveUpstream *)

\* The host's module resolution and the schema validator, as one call finds
\* them: `modules` maps the specifiers that resolve to what acquiring them does,
\* `accepts` and `errors` are what isAValidSharableConfig answers and leaves in
\* its `errors` property.
ModuleExports(e) == [kind |-> "exports", exports |-> e]
ModuleThrows(code, message) == [kind |-> "throws", code |-> code, message |-> message]

\* require(specifier): the module's exports, or the error it throws.
Require(env, specifier) ==
    IF specifier \in DOMAIN env.modules
    THEN env.modules[specifier]
    ELSE ModuleThrows("MODULE_NOT_FOUND", "Cannot find module '" \o specifier \o "'")

\* isAValidSharableConfig(config) of ./config-inspector.
IsAValidSharableConfig(env, config) == env.accepts

\* util.inspect(isAValidSharableConfig.errors).
InspectValidatorErrors(env) == env.errors

LowercaseOrUnderscore ==
    { "a", "b", "c", "d", "e", "f", "g", "h", "i", "j", "k", "l", "m", "n",
      "o", "p", "q", "r", "s", "t", "u", "v", "w", "x", "y", "z", "_" }

\* Variant of CoreRulesetRegExpTest: the pattern without its closing anchor.
CoreRulesetRegExpTestUnanchored(upstream) ==
    /\ Len(upstream) > Len("solium:")
    /\ SubSeq(upstream, 1, Len("solium:")) = "solium:"
    /\ CharAt(upstream, Len("solium:") + 1) \in LowercaseOrUnderscore

\* /^solium:[a-z_]+$/.test(upstream)
CoreRulesetRegExpTest(upstream) ==
    /\ Len(upstream) > Len("solium:")
    /\ SubSeq(upstream, 1, Len("solium:")) = "solium:"
    /\ \A i \in (Len("solium:") + 1)..Len(upstream) :
           CharAt(upstream, i) \in LowercaseOrUnderscore

\* Variant of CoreRulesetModule: the whole reference in the path.
CoreRulesetModuleWholeReference(upstream) ==
    "../../config/rulesets/solium-" \o upstream

\* The module a core ruleset reference is acquired from.
CoreRulesetModule(upstream) ==
    "../../config/rulesets/solium-" \o Split(upstream, ":")[2]

\* The package a sharable config reference is acquired from.
SharableConfigName(upstream) == SOLIUM_SHARABLE_CONFIG_PREFIX \o upstream

\* The core-ruleset branch: any failure of the require is reported alike.
ResolveCoreRuleset(env, upstream) ==
    LET specifier == CoreRulesetModule(upstream)
        module == Require(env, specifier)
    IN  [acquired |-> <<specifier>>,
         result |-> IF module.kind = "exports"
                    THEN Returned(Get(module.exports, "rules"))
                    ELSE Thrown("Error", "\"" \o upstream \o "\" is not a core ruleset.")]

\* The sharable-config branch.
ResolveSharableConfig(env, upstream) ==
    LET configName == SharableConfigName(upstream)
        module == Require(env, configName)
    IN  [acquired |-> <<configName>>,
         result |->
            IF module.kind = "throws"
            THEN IF module.code = "MODULE_NOT_FOUND"
                 THEN Thrown("Error",
                        "The sharable config \"" \o configName \o "\" is not installed. "
                        \o "If Solium is installed globally, install the config globally using "
                        \o "\"npm install -g " \o configName \o "\". Else install locally using "
                        \o "\"npm install --save-dev " \o configName \o "\".")
                 ELSE Thrown("Error",
                        "The sharable config \"" \o configName
                        \o "\" could not be loaded: " \o module.message)
            ELSE IF IsAValidSharableConfig(env, module.exports)
                 THEN Returned(Get(module.exports, "rules"))
                 ELSE Thrown("Error",
                        "Invalid sharable config \"" \o configName
                        \o "\". AJV message:\n" \o InspectValidatorErrors(env))]

\* resolveUpstream(upstream): the specifiers it acquired and its result.
ResolveUpstreamOutcome(env, upstream) ==
    IF CoreRulesetRegExpTest(upstream)
    THEN ResolveCoreRuleset(env, upstream)
    ELSE ResolveSharableConfig(env, upstream)

(* The arguments and environments the model hands to resolveUpstream. *)

IdentAlphabet == { "a", "_", "Z" }

RECURSIVE IdentTails(_)
IdentTails(n) ==
    IF n = 0 THEN { "" }
    ELSE IdentTails(n - 1) \cup { t \o c : t \in IdentTails(n - 1), c \in IdentAlphabet }

UpstreamHeads == { "solium:", "Solium:", "solium", "mysolium:", "solium:a:" }

RulesAll == [quotes |-> "error", indentation |-> "warning"]
RulesShared == [quotes |-> "off"]

\* What acquiring one specifier can do, when it resolves at all.
ModuleBehaviours ==
    { ModuleExports([rules |-> RulesAll]),
      ModuleExports([rules |-> RulesShared]),
      ModuleExports([plugins |-> "security"]),
      ModuleThrows("MODULE_NOT_FOUND", "Cannot find module 'lodash'"),
      ModuleThrows("", "Unexpected token }") }

ValidatorAnswers ==
    { [accepts |-> TRUE, errors |-> "null"],
      [accepts |-> FALSE, errors |-> "[ { keyword: 'additionalProperties' } ]" ] }

\* The environments in which at most the two modules named after the reference
\* resolve.
Environments(head, tail) ==
    LET candidates == { "../../config/rulesets/solium-" \o tail,
                        "solium-config-" \o head \o tail }
    IN  { [modules |-> m, accepts |-> v.accepts, errors |-> v.errors] :
            m \in UNION { [S -> ModuleBehaviours] : S \in SUBSET candidates },
            v \in ValidatorAnswers }

-----------------------------------------------------------------------------
(* The state machine. *)

Idle == [op |-> "idle"]

Init ==
    /\ ruleDefs = SeededRuleDefs
    /\ call = Idle
    /\ before = SeededRuleDefs
    /\ result = Returned(Undefined)

\* A caller invokes load.
Load ==
    /\ call = Idle
    /\ \E listOfRules \in RuleLists, plugins \in PluginTables :
        LET out == LoadOutcome(ruleDefs, listOfRules, plugins)
        IN  /\ call' = [op |-> "load", listOfRules |-> listOfRules, plugins |-> plugins]
            /\ before' = ruleDefs
            /\ ruleDefs' = out.defs
            /\ result' = out.result

\* A caller invokes resolvePluginConfig.
ResolvePluginConfig ==
    /\ call = Idle
    /\ \E name \in PluginShortNames, plugin \in PluginObjects :
        /\ call' = [op |-> "resolvePluginConfig", name |-> name, plugin |-> plugin]
        /\ before' = ruleDefs
        /\ result' = ResolvePluginConfigOutcome(name, plugin)
        /\ UNCHANGED ruleDefs

\* A caller invokes resolveUpstream.
ResolveUpstream ==
    /\ call = Idle
    /\ \E head \in UpstreamHeads, tail \in IdentTails(MaxIdentLen) :
        \E env \in Environments(head, tail) :
            LET out == ResolveUpstreamOutcome(env, head \o tail)
            IN  /\ call' = [op |-> "resolveUpstream", upstream |-> head \o tail,
                            env |-> env, acquired |-> out.acquired]
                /\ before' = ruleDefs
                /\ result' = out.result
                /\ UNCHANGED ruleDefs

\* The caller is done with the result of its call; the registry stays.
Continue ==
    /\ call # Idle
    /\ call' = Idle
    /\ before' = ruleDefs
    /\ result' = Returned(Undefined)
    /\ UNCHANGED ruleDefs

Next == Load \/ ResolvePluginConfig \/ ResolveUpstream \/ Continue

Spec == Init /\ [][Next]_vars

\* The rule loader alone: resolveUpstream neither reads nor writes the registry.
LoaderNext == Load \/ ResolvePluginConfig \/ Continue

LoaderSpec == Init /\ [][LoaderNext]_vars

\* The upstream resolver alone.
UpstreamNext == ResolveUpstream \/ Continue

UpstreamSpec == Init /\ [][UpstreamNext]_vars

-----------------------------------------------------------------------------
(* Vocabulary of the properties. *)

SlashCount(s) == Cardinality({ i \in 1..Len(s) : CharAt(s, i) = "/" })

\* Plugin and rule names without a '/'.
PluginSegments == { "pluginA", "pluginB" }
RuleSegments == { "ruleB", "ruleC" }

IsLoad == call.op = "load"

IsSingleLoad == IsLoad /\ Len(call.listOfRules) = 1

Failed == result.status = "throw"

\* load, handed the one entry `name`, throws (whatever the registry holds).
EntryFails(name, plugins) ==
    LoadOutcome(SeededRuleDefs, <<name>>, plugins).result.status = "throw"

\* The first entry of the last load's list whose resolution fails, 0 if none.
FirstFailing ==
    LET failing == { i \in 1..Len(call.listOfRules) :
                        EntryFails(call.listOfRules[i], call.plugins) }
    IN  IF failing = {} THEN 0
        ELSE CHOOSE i \in failing : \A j \in failing : i <= j

Reorderings(n) == { p \in [1..n -> 1..n] : \A i, j \in 1..n : p[i] = p[j] => i = j }

-----------------------------------------------------------------------------
(* C1 *)

\* C1: load(["P/R"], plugins), where P and R hold no '/' and the table maps
\* "solium-plugin-" + P to a plugin whose rules map R to impl, returns the
\* shared registry with "P/R" bound to exactly impl, whatever "P/R" was bound
\* to before.
C1_PluginRuleBound ==
    (IsSingleLoad /\ call.plugins.defined) =>
        \A P \in PluginSegments, R \in RuleSegments :
            LET package == "solium-plugin-" \o P
                table == call.plugins.table
            IN  ( /\ call.listOfRules[1] = P \o "/" \o R
                  /\ package \in DOMAIN table
                  /\ R \in DOMAIN table[package].rules )
                => /\ result.status = "return"
                   /\ result.value = ruleDefs
                   /\ (P \o "/" \o R) \in DOMAIN ruleDefs
                   /\ ruleDefs[P \o "/" \o R] = table[package].rules[R]
                   /\ \A k \in DOMAIN before \ {P \o "/" \o R} :
                          k \in DOMAIN ruleDefs /\ ruleDefs[k] = before[k]

\* A load of "pluginA/ruleB" that replaced an earlier, different binding.
C1_Witness ==
    /\ IsSingleLoad
    /\ call.listOfRules[1] = "pluginA/ruleB"
    /\ call.plugins = PluginTable("solium-plugin-pluginA" :> PluginA2)
    /\ "pluginA/ruleB" \in DOMAIN before
    /\ before["pluginA/ruleB"] = DefB1
    /\ result.status = "return"
    /\ ruleDefs["pluginA/ruleB"] = DefB2

-----------------------------------------------------------------------------
(* C2 *)

\* C2: load(["P/R"], plugins) with no entry for "solium-plugin-" + P in the
\* table fails with the error "Unable to load Plugin ..." naming that package,
\* and adds no entry for "P/R".
C2_AbsentPluginRaisesPluginLoadError ==
    IsSingleLoad =>
        \A P \in PluginSegments, R \in RuleSegments :
            LET package == "solium-plugin-" \o P
            IN  ( /\ call.listOfRules[1] = P \o "/" \o R
                  /\ package \notin DOMAIN call.plugins.table )
                => /\ Failed
                   /\ result.type = "Error"
                   /\ Includes(result.message, "Unable to load Plugin")
                   /\ Includes(result.message, package)
                   /\ (P \o "/" \o R) \in DOMAIN ruleDefs
                          => (P \o "/" \o R) \in DOMAIN before

-----------------------------------------------------------------------------
(* C3 *)

\* C3: load([name]) for a name without '/' that is no core rule fails with
\* the error "Unable to read ..." naming the path of the rule file, and does
\* not return the registry.
C3_UnknownCoreRuleRaisesRuleLoadError ==
    ( /\ IsSingleLoad
      /\ SlashCount(call.listOfRules[1]) = 0
      /\ call.listOfRules[1] \notin CoreRuleNames )
    => /\ Failed
       /\ result.type = "Error"
       /\ Includes(result.message, "Unable to read")
       /\ Includes(result.message, "../rules/" \o call.listOfRules[1])

-----------------------------------------------------------------------------
(* C4 *)

\* What both readings of C4 share: the entries are taken in input order, the
\* first failing entry ends the call with the error that entry alone raises,
\* and a list without a failing entry returns the registry.
FailFast ==
    LET i == FirstFailing
    IN  IF i = 0
        THEN result.status = "return" /\ result.value = ruleDefs
        ELSE result =
                 LoadOutcome(before, <<call.listOfRules[i]>>, call.plugins).result

\* C4 as claimed: load is fail-fast, and a failed load leaves the registry as
\* it was before the call.
C4_FailedLoadLeavesRegistryUntouched ==
    IsLoad => (FailFast /\ (Failed => ruleDefs = before))

\* C4 as amended: load is fail-fast; after a failed load the registry is the
\* one the entries before the first failing one produce (they stay bound), and
\* no later entry is bound.
C4_FailedLoadKeepsEarlierBindings ==
    IsLoad =>
        /\ FailFast
        /\ Failed =>
              LET earlier == SubSeq(call.listOfRules, 1, FirstFailing - 1)
                  out == LoadOutcome(before, earlier, call.plugins)
              IN  out.result.status = "return" /\ ruleDefs = out.defs

\* A failed load whose first entry was bound and whose second entry failed.
C4_Witness ==
    /\ IsLoad
    /\ call.listOfRules = <<"pluginA/ruleB", "pluginB/ruleB">>
    /\ call.plugins = PluginTable("solium-plugin-pluginA" :> PluginA1)
    /\ Failed
    /\ "pluginA/ruleB" \notin DOMAIN before
    /\ "pluginA/ruleB" \in DOMAIN ruleDefs
    /\ "pluginB/ruleB" \notin DOMAIN ruleDefs

-----------------------------------------------------------------------------
(* C5 *)

\* C5: load([x], {}) for a core rule x of the seeded catalog returns the
\* registry, leaves x bound to the definition it had and changes nothing
\* else, so that repeating the call gives the same registry as one call.
C5_CoreRuleLoadIsIdempotent ==
    ( /\ IsSingleLoad
      /\ call.listOfRules[1] \in CoreRuleNames
      /\ call.plugins = PluginTable(NoKeys) )
    => /\ result.status = "return"
       /\ result.value = ruleDefs
       /\ call.listOfRules[1] \in DOMAIN ruleDefs
       /\ ruleDefs[call.listOfRules[1]] = before[call.listOfRules[1]]
       /\ ruleDefs[call.listOfRules[1]] = CoreRuleDefinition(call.listOfRules[1])
       /\ ruleDefs = before
       /\ LoadOutcome(ruleDefs, call.listOfRules, call.plugins).defs = ruleDefs

\* load(["quotes"], {}) on a registry that already holds a plugin rule.
C5_Witness ==
    /\ IsSingleLoad
    /\ call.listOfRules[1] = "quotes"
    /\ call.plugins = PluginTable(NoKeys)
    /\ result.status = "return"
    /\ "pluginA/ruleB" \in DOMAIN before

-----------------------------------------------------------------------------
(* C9 *)

\* C9: a load that succeeds on a list succeeds on every permutation of the
\* list, from the same registry and with the same plugins, and leaves the same
\* registry.
C9_LoadIsOrderIndependent ==
    (IsLoad /\ result.status = "return") =>
        \A p \in Reorderings(Len(call.listOfRules)) :
            LET permuted == [i \in 1..Len(call.listOfRules) |-> call.listOfRules[p[i]]]
                out == LoadOutcome(before, permuted, call.plugins)
            IN  out.result.status = "return" /\ out.defs = ruleDefs

\* A successful load of two different rules of one plugin.
C9_Witness ==
    /\ IsLoad
    /\ call.listOfRules = <<"pluginA/ruleB", "pluginA/ruleC">>
    /\ call.plugins = PluginTable("solium-plugin-pluginA" :> PluginA1)
    /\ result.status = "return"
    /\ ruleDefs["pluginA/ruleB"] = DefB1
    /\ ruleDefs["pluginA/ruleC"] = DefC

-----------------------------------------------------------------------------
(* C10 *)

\* C10: no step removes a key of the registry, every seeded core rule stays
\* bound to its seeded definition, and a key that a step adds or rebinds
\* holds a '/'.
C10_RegistryGrowsByPluginKeysOnly ==
    [][ /\ DOMAIN ruleDefs \subseteq DOMAIN ruleDefs'
        /\ \A k \in CoreRuleNames :
               k \in DOMAIN ruleDefs' /\ ruleDefs'[k] = CoreRuleDefinition(k)
        /\ \A k \in DOMAIN ruleDefs' :
               (k \notin DOMAIN ruleDefs \/ ruleDefs'[k] # ruleDefs[k])
                   => SlashCount(k) > 0 ]_vars

\* A load that added one plugin key and rebound another, next to the seeded
\* core rules.
C10_Witness ==
    /\ IsLoad
    /\ result.status = "return"
    /\ \E k \in DOMAIN ruleDefs : k \notin DOMAIN before /\ SlashCount(k) > 0
    /\ \E k \in DOMAIN ruleDefs : k \in DOMAIN before /\ ruleDefs[k] # before[k]

-----------------------------------------------------------------------------
(* C6, C7 *)

IsResolveUpstream == call.op = "resolveUpstream"

\* The identifiers [a-z_]+ among the texts the model appends to a head.
LowercaseIdents ==
    { t \in IdentTails(MaxIdentLen) :
        t # "" /\ \A i \in 1..Len(t) : CharAt(t, i) \in { "a", "_" } }

\* The references of the model that match ^solium:[a-z_]+$.
CoreRulesetReferences == { "solium:" \o t : t \in LowercaseIdents }

\* C6: for a reference "solium:" + identifier, resolveUpstream acquires the
\* ruleset module "../../config/rulesets/solium-" + identifier and nothing
\* else (never the sharable-config package), and either returns the `rules`
\* of that module or fails with the error that quotes the reference and says
\* it "is not a core ruleset", whatever made the acquisition fail.
C6_CoreRulesetReference ==
    IsResolveUpstream =>
        \A t \in LowercaseIdents :
            call.upstream = "solium:" \o t =>
                LET specifier == "../../config/rulesets/solium-" \o t
                    modules == call.env.modules
                IN  /\ call.acquired = <<specifier>>
                    /\ IF specifier \in DOMAIN modules /\ modules[specifier].kind = "exports"
                       THEN result = Returned(Get(modules[specifier].exports, "rules"))
                       ELSE /\ Failed
                            /\ result.type = "Error"
                            /\ result.message =
                                   "\"" \o call.upstream \o "\" is not a core ruleset."

\* A core ruleset reference whose module does not resolve while a sharable
\* config package of the same name does: the call fails all the same.
C6_Witness ==
    /\ IsResolveUpstream
    /\ call.upstream = "solium:a_"
    /\ DOMAIN call.env.modules = { "solium-config-solium:a_" }
    /\ call.env.modules["solium-config-solium:a_"] = ModuleExports([rules |-> RulesShared])
    /\ Failed
    /\ Includes(result.message, "solium:a_")

\* C7: for a reference that does not match the pattern, resolveUpstream
\* acquires the package "solium-config-" + reference and nothing else, and
\*   - a package that cannot be found gives the error with the global and the
\*     local install command for that package;
\*   - any other failure gives the error carrying the failure's message;
\*   - a config the validator accepts gives its `rules`;
\*   - a config the validator rejects gives the error carrying the
\*     validator's errors, never the rules.
C7_SharableConfigReference ==
    (IsResolveUpstream /\ call.upstream \notin CoreRulesetReferences) =>
        LET package == "solium-config-" \o call.upstream
            modules == call.env.modules
            found == package \in DOMAIN modules
        IN  /\ call.acquired = <<package>>
            /\ result.status = "return" =>
                   found /\ modules[package].kind = "exports" /\ call.env.accepts
            /\ IF ~found \/ ( modules[package].kind = "throws"
                              /\ modules[package].code = "MODULE_NOT_FOUND" )
               THEN /\ Failed
                    /\ result.type = "Error"
                    /\ Includes(result.message, "\"" \o package \o "\" is not installed")
                    /\ Includes(result.message, "\"npm install -g " \o package \o "\"")
                    /\ Includes(result.message, "\"npm install --save-dev " \o package \o "\"")
               ELSE IF modules[package].kind = "throws"
               THEN /\ Failed
                    /\ result.type = "Error"
                    /\ Includes(result.message, "\"" \o package \o "\" could not be loaded")
                    /\ Includes(result.message, modules[package].message)
               ELSE IF call.env.accepts
               THEN result = Returned(Get(modules[package].exports, "rules"))
               ELSE /\ Failed
                    /\ result.type = "Error"
                    /\ Includes(result.message, "Invalid sharable config \"" \o package \o "\"")
                    /\ Includes(result.message, call.env.errors)

\* A reference that only misses the pattern by an upper-case letter: its
\* config exposes rules, the validator rejects it, and the call fails.
C7_Witness ==
    /\ IsResolveUpstream
    /\ call.upstream = "solium:aZ"
    /\ "solium-config-solium:aZ" \in DOMAIN call.env.modules
    /\ call.env.modules["solium-config-solium:aZ"] = ModuleExports([rules |-> RulesAll])
    /\ ~call.env.accepts
    /\ Failed
    /\ Includes(result.message, call.env.errors)

-----------------------------------------------------------------------------
(* C8 *)

IsResolvePluginConfig == call.op = "resolvePluginConfig"

\* The key built from `ruleName` is a key of the returned config, holds one
\* '/', and load([key], {"solium-plugin-" + name: plugin}) binds it to the rule
\* it was built from.
RoundTrips(name, plugin, ruleName) ==
    LET key == name \o "/" \o ruleName
        out == LoadOutcome(ruleDefs, <<key>>,
                           PluginTable(("solium-plugin-" \o name) :> plugin))
    IN  /\ key \in DOMAIN result.value
        /\ SlashCount(key) = 1
        /\ out.result.status = "return"
        /\ key \in DOMAIN out.defs
        /\ out.defs[key] = plugin.rules[ruleName]

\* C8 as claimed: every key resolvePluginConfig(N, plugin) returns round-trips
\* through load, for every plugin name and every plugin object.
C8_EveryConfigKeyRoundTrips ==
    (IsResolvePluginConfig /\ result.status = "return") =>
        \A r \in DOMAIN call.plugin.rules : RoundTrips(call.name, call.plugin, r)

\* C8 as amended: the keys round-trip when neither the plugin name nor the
\* rule name holds a '/'.
C8_SlashFreeConfigKeyRoundTrips ==
    (IsResolvePluginConfig /\ result.status = "return" /\ SlashCount(call.name) = 0) =>
        /\ Cardinality(DOMAIN result.value) = Cardinality(DOMAIN call.plugin.rules)
        /\ \A r \in DOMAIN call.plugin.rules :
               SlashCount(r) = 0 => RoundTrips(call.name, call.plugin, r)

\* resolvePluginConfig("pluginA", plugin) returned the keys of two rules, on a
\* registry in which one of them is bound to another definition.
C8_Witness ==
    /\ IsResolvePluginConfig
    /\ call.name = "pluginA"
    /\ call.plugin = PluginA1
    /\ result = Returned("pluginA/ruleB" :> "error" @@ "pluginA/ruleC" :> "warning")
    /\ "pluginA/ruleB" \in DOMAIN ruleDefs
    /\ ruleDefs["pluginA/ruleB"] = DefB2

====
